---- MODULE Spec2Model ----
(***************************************************************************)
(* Model of sockeye/encoder.py: the Encoder classes, the two builder       *)
(* functions and the calls a client makes on a constructed encoder; and of *)
(* sockeye/initializer.py: get_initializer and the two initializer classes *)
(* with the _init_weight calls made on them.                               *)
(*                                                                         *)
(* A tensor is modelled by its rank, its channel width and a 2-D array     *)
(* (sequence of sequences) of elements indexed by its two leading axes.    *)
(* An element is the symbolic expression of the channel vector at that     *)
(* place: a sequence of tokens in prefix notation, one token per graph     *)
(* node the code declares.                                                 *)
(***************************************************************************)
EXTENDS Integers, Sequences, FiniteSets, TLC

VARIABLES
    pc,           \* "start" | "ready" (an object is there to call) | "returned"
                  \* (a call on it returned or raised) | "failed" (no object)
    obj,          \* the constructed encoder or initializer
    obj0,         \* history: the encoder as it was when its constructor returned
    built,        \* the constructor or builder call made: its name and arguments
    call,         \* the method call in progress: its name and arguments
    ret,          \* what that call returned; for _init_weight, the array after
                  \* the call and the slice assignments the call made
    raised,       \* the exception that call raised ("" when none)
    ctor_calls,   \* history: the sub-encoder constructors the last constructor ran
    stage_calls,  \* history: the stage.encode calls of the last EncoderSequence.encode
    layer_calls,  \* history: the layer calls of the last TransformerEncoder.encode
    bi_locals     \* history: the locals of the last BiDirectionalRNNEncoder.encode

vars == <<pc, obj, obj0, built, call, ret, raised, ctor_calls, stage_calls, layer_calls, bi_locals>>

----------------------------------------------------------------------------
(* Bounds of the model                                                     *)

MaxBatch == 2
MaxSeqLen == 3
MaxHidden == 4
MaxLayers == 2
MaxEmbed == 2

----------------------------------------------------------------------------
(* Tensors                                                                 *)

\* A graph node: its operator, the name parts of the symbol or module it belongs
\* to (a tuple of strings), and two integer attributes.
Tok(op, id, i, j) == [op |-> op, id |-> id, i |-> i, j |-> j]

\* The 2-D array `el` as a sequence of sequences (a tuple of tuples).
Rows(el) == [a \in 1..Len(el) |-> el[a] \o <<>>] \o <<>>

Tensor(rank, chan, el) == [rank |-> rank, chan |-> chan, el |-> Rows(el)]

Dim0(x) == Len(x.el)
Dim1(x) == Len(x.el[1])

\* The shape of a tensor: (d0, d1) for rank 2, (d0, d1, channels) for rank 3.
Shape(x) == IF x.rank = 2 THEN <<Dim0(x), Dim1(x)>> ELSE <<Dim0(x), Dim1(x), x.chan>>

\* A token-index batch (batch, seq_len), element (b, t) named by its place.
IndexBatch(B, T) ==
    Tensor(2, 0, [b \in 1..B |-> [t \in 1..T |-> <<Tok("data", <<"source">>, b, t)>>]])

\* An input of width chan with leading axes (d0, d1).
InputTensor(d0, d1, chan) ==
    Tensor(3, chan, [a \in 1..d0 |-> [b \in 1..d1 |-> <<Tok("data", <<"source">>, a, b)>>]])

\* mx.sym.swapaxes(data, dim1=0, dim2=1)
swapaxes(data) ==
    Tensor(data.rank, data.chan,
           [j \in 1..Dim1(data) |-> [i \in 1..Dim0(data) |-> data.el[i][j]]])

\* mx.sym.SequenceReverse(data, sequence_length, use_sequence_length=True) on
\* time-major data: example b's first sequence_length[b] steps are reversed,
\* the steps after them stay where they are.
SequenceReverse(data, sequence_length) ==
    Tensor(data.rank, data.chan,
           [t \in 1..Dim0(data) |->
               [b \in 1..Dim1(data) |->
                   IF t <= sequence_length[b]
                   THEN data.el[sequence_length[b] - t + 1][b]
                   ELSE data.el[t][b]]])

\* mx.sym.concat(lhs, rhs, dim=2): the channels of rhs after those of lhs.
concat(lhs, rhs, name) ==
    Tensor(3, lhs.chan + rhs.chan,
           [a \in 1..Dim0(lhs) |->
               [b \in 1..Dim1(lhs) |->
                   <<Tok("concat", <<name>>, 0, 0)>> \o lhs.el[a][b] \o rhs.el[a][b]]])

\* lhs + rhs on symbols: element-wise sum of two tensors of one shape.
elemwise_add(lhs, rhs) ==
    Tensor(lhs.rank, lhs.chan,
           [a \in 1..Dim0(lhs) |->
               [b \in 1..Dim1(lhs) |->
                   <<Tok("add", <<>>, 0, 0)>> \o lhs.el[a][b] \o rhs.el[a][b]]])

----------------------------------------------------------------------------
(* Recurrent cells (sockeye.rnn, mx.rnn)                                   *)

\* sockeye.rnn.get_stacked_rnn: a stack of num_layers cells.
get_stacked_rnn(cell_type, num_hidden, num_layers, dropout, prefix, residual, forget_bias) ==
    [kind |-> "SequentialRNNCell", mode |-> cell_type, num_hidden |-> num_hidden,
     num_layers |-> num_layers, dropout |-> dropout, prefix |-> prefix,
     residual |-> residual, forget_bias |-> forget_bias]

\* mx.rnn.FusedRNNCell(num_hidden, num_layers, mode, bidirectional=False, ...):
\* the cell takes no residual argument.
FusedRNNCell(num_hidden, num_layers, mode, dropout, forget_bias, prefix) ==
    [kind |-> "FusedRNNCell", mode |-> mode, num_hidden |-> num_hidden,
     num_layers |-> num_layers, dropout |-> dropout, prefix |-> prefix,
     residual |-> FALSE, forget_bias |-> forget_bias]

\* The hidden states of one example: h_t = cell(x_t, h_{t-1}), h_0 the begin state.
RECURSIVE RnnStates(_, _)
RnnStates(cell, xs) ==
    IF Len(xs) = 0 THEN <<>>
    ELSE LET n == Len(xs)
             prev == RnnStates(cell, SubSeq(xs, 1, n - 1))
             h == IF n = 1 THEN <<Tok("begin_state", cell.prefix, 0, 0)>> ELSE prev[n - 1]
         IN Append(prev, <<Tok("rnn", cell.prefix, cell.num_layers, n)>> \o xs[n] \o h)

\* cell.unroll(length, inputs, merge_outputs=True, layout): the recurrence
\* runs over the time axis of the layout, every example on its own, for all
\* `length` steps; the output has num_hidden channels.
unroll(cell, length, inputs, layout) ==
    LET tm == IF layout = "TNC" THEN inputs ELSE swapaxes(inputs)
        col(b) == RnnStates(cell, [t \in 1..length |-> tm.el[t][b]])
        out == Tensor(3, cell.num_hidden,
                      [t \in 1..length |-> [b \in 1..Dim1(tm) |-> col(b)[t]]])
    IN IF layout = "TNC" THEN out ELSE swapaxes(out)

----------------------------------------------------------------------------
(* sockeye.constants and sockeye.utils                                     *)

TIME_MAJOR == "TNC"
BATCH_MAJOR == "NTC"

\* layout[0] == 'N'
IsBatchMajor(layout) == layout = BATCH_MAJOR

\* sockeye.utils.check_condition(condition, error_message): raises when the
\* condition is false. The result names the exception raised, "" for none.
check_condition(condition) == IF condition THEN "" ELSE "SockeyeError"

\* What a constructor that raised leaves behind: no object.
NoObject == [kind |-> "none"]

----------------------------------------------------------------------------
(* BatchMajor2TimeMajor                                                    *)

BatchMajor2TimeMajor(num_hidden) == [kind |-> "BatchMajor2TimeMajor", num_hidden |-> num_hidden]

\* The default of the num_hidden parameter.
BatchMajor2TimeMajor_default == BatchMajor2TimeMajor(0)

BatchMajor2TimeMajor_encode(self, data, data_length, seq_len) == swapaxes(data)

BatchMajor2TimeMajor_get_num_hidden(self) == self.num_hidden

BatchMajor2TimeMajor_get_rnn_cells(self) == <<>>

----------------------------------------------------------------------------
(* Embedding                                                               *)

Embedding(num_embed, vocab_size, prefix, dropout, add_positional_encoding) ==
    [kind |-> "Embedding", num_embed |-> num_embed, vocab_size |-> vocab_size,
     prefix |-> prefix, dropout |-> dropout,
     add_positional_encoding |-> add_positional_encoding]

max_seq_len == 500

\* Rows begin..end-1 of the (max_seq_len, num_embed) variable the
\* PositionalEncodingInitializer fills, as a (1, seq_len, num_embed) tensor.
Embedding__get_positional_encoding(self, seq_len) ==
    LET encodings == [p \in 1..max_seq_len |->
                         <<Tok("positional_encodings", self.prefix, p - 1, self.num_embed)>>]
        sliced == SubSeq(encodings, 1, seq_len)
    IN Tensor(3, self.num_embed,
              <<[t \in 1..Len(sliced) |-> <<Tok("BlockGrad", <<>>, 0, 0)>> \o sliced[t]]>>)

Embedding_encode(self, data, data_length, seq_len) ==
    LET embedding ==
            Tensor(3, self.num_embed,
                   [a \in 1..Dim0(data) |->
                       [b \in 1..Dim1(data) |->
                           <<Tok("Embedding", self.prefix \o <<"embed">>, self.vocab_size, self.num_embed)>>
                               \o data.el[a][b]]])
        enc == Embedding__get_positional_encoding(self, seq_len)
        with_enc ==
            IF self.add_positional_encoding
            THEN Tensor(3, self.num_embed,
                        [a \in 1..Dim0(embedding) |->
                            [b \in 1..Dim1(embedding) |->
                                <<Tok("broadcast_add", self.prefix \o <<"add_encoding">>, 0, 0)>>
                                    \o embedding.el[a][b] \o enc.el[1][b]]])
            ELSE embedding
    IN IF self.dropout > 0
       THEN Tensor(3, self.num_embed,
                   [a \in 1..Dim0(with_enc) |->
                       [b \in 1..Dim1(with_enc) |->
                           <<Tok("Dropout", <<"source_embed_dropout">>, self.dropout, 0)>>
                               \o with_enc.el[a][b]]])
       ELSE with_enc

Embedding_get_num_hidden(self) == self.num_embed

Embedding_get_rnn_cells(self) == <<>>

----------------------------------------------------------------------------
(* RecurrentEncoder, FusedRecurrentEncoder                                 *)

RecurrentEncoder(num_hidden, num_layers, prefix, dropout, layout, cell_type, residual, forget_bias) ==
    [kind |-> "RecurrentEncoder", layout |-> layout, num_hidden |-> num_hidden,
     rnn |-> get_stacked_rnn(cell_type, num_hidden, num_layers, dropout, prefix,
                             residual, forget_bias)]

RecurrentEncoder_encode(self, data, data_length, seq_len) ==
    unroll(self.rnn, seq_len, data, self.layout)

RecurrentEncoder_get_rnn_cells(self) == <<self.rnn>>

RecurrentEncoder_get_num_hidden(self) == self.num_hidden

\* The residual argument is accepted and not passed on to the cell.
FusedRecurrentEncoder(num_hidden, num_layers, prefix, dropout, layout, cell_type, residual, forget_bias) ==
    [kind |-> "FusedRecurrentEncoder", layout |-> layout, num_hidden |-> num_hidden,
     rnn |-> <<FusedRNNCell(num_hidden, num_layers, cell_type, dropout, forget_bias, prefix)>>]

\* outputs after the first n cells of self.rnn
RECURSIVE FusedRecurrentEncoder_loop(_, _, _, _)
FusedRecurrentEncoder_loop(self, n, data, seq_len) ==
    IF n = 0 THEN data
    ELSE unroll(self.rnn[n], seq_len,
                FusedRecurrentEncoder_loop(self, n - 1, data, seq_len), self.layout)

FusedRecurrentEncoder_encode(self, data, data_length, seq_len) ==
    FusedRecurrentEncoder_loop(self, Len(self.rnn), data, seq_len)

FusedRecurrentEncoder_get_rnn_cells(self) == self.rnn

FusedRecurrentEncoder_get_num_hidden(self) == self.num_hidden

\* encoder_class(...): the class the caller chose, called as a constructor.
encoder_class_new(encoder_class, num_hidden, num_layers, prefix, dropout, layout, cell_type, residual, forget_bias) ==
    IF encoder_class = "FusedRecurrentEncoder"
    THEN FusedRecurrentEncoder(num_hidden, num_layers, prefix, dropout, layout,
                               cell_type, residual, forget_bias)
    ELSE RecurrentEncoder(num_hidden, num_layers, prefix, dropout, layout,
                          cell_type, residual, forget_bias)

\* Method dispatch on an instance of encoder_class.
Recurrent_encode(self, data, data_length, seq_len) ==
    IF self.kind = "FusedRecurrentEncoder"
    THEN FusedRecurrentEncoder_encode(self, data, data_length, seq_len)
    ELSE RecurrentEncoder_encode(self, data, data_length, seq_len)

Recurrent_get_rnn_cells(self) ==
    IF self.kind = "FusedRecurrentEncoder"
    THEN FusedRecurrentEncoder_get_rnn_cells(self)
    ELSE RecurrentEncoder_get_rnn_cells(self)

----------------------------------------------------------------------------
(* BiDirectionalRNNEncoder                                                 *)

\* The constructor without the check of num_hidden.
BiDirectionalRNNEncoder_unchecked(num_hidden, num_layers, prefix, dropout, layout, cell_type, encoder_class, forget_bias) ==
    LET forward_rnn == encoder_class_new(encoder_class, num_hidden \div 2, num_layers,
                                         prefix \o <<"FORWARD_PREFIX">>, dropout,
                                         TIME_MAJOR, cell_type, FALSE, forget_bias)
        reverse_rnn == encoder_class_new(encoder_class, num_hidden \div 2, num_layers,
                                         prefix \o <<"REVERSE_PREFIX">>, dropout,
                                         TIME_MAJOR, cell_type, FALSE, forget_bias)
    IN [raised |-> "",
        self |-> [kind |-> "BiDirectionalRNNEncoder", num_hidden |-> num_hidden,
                  forward_rnn |-> forward_rnn, reverse_rnn |-> reverse_rnn,
                  layout |-> layout, prefix |-> prefix],
        made |-> <<forward_rnn, reverse_rnn>>]

\* __init__: the result holds the exception raised ("" for none), the object
\* and, in `made`, the sub-encoders constructed, in the order of construction.
BiDirectionalRNNEncoder(num_hidden, num_layers, prefix, dropout, layout, cell_type, encoder_class, forget_bias) ==
    LET err == check_condition(num_hidden % 2 = 0)
        forward_rnn == encoder_class_new(encoder_class, num_hidden \div 2, num_layers,
                                         prefix \o <<"FORWARD_PREFIX">>, dropout,
                                         TIME_MAJOR, cell_type, FALSE, forget_bias)
        reverse_rnn == encoder_class_new(encoder_class, num_hidden \div 2, num_layers,
                                         prefix \o <<"REVERSE_PREFIX">>, dropout,
                                         TIME_MAJOR, cell_type, FALSE, forget_bias)
    IN IF err # ""
       THEN [raised |-> err, self |-> NoObject, made |-> <<>>]
       ELSE [raised |-> "",
             self |-> [kind |-> "BiDirectionalRNNEncoder", num_hidden |-> num_hidden,
                       forward_rnn |-> forward_rnn, reverse_rnn |-> reverse_rnn,
                       layout |-> layout, prefix |-> prefix],
             made |-> <<forward_rnn, reverse_rnn>>]

\* _encode with the reverse states left in reversed order.
BiDirectionalRNNEncoder__encode_no_reverse_back(self, data, data_length, seq_len) ==
    LET data_reverse == SequenceReverse(data, data_length)
        hidden_forward == Recurrent_encode(self.forward_rnn, data, data_length, seq_len)
        hidden_reverse == Recurrent_encode(self.reverse_rnn, data_reverse, data_length, seq_len)
        hidden_concat == concat(hidden_forward, hidden_reverse, "rnn")
    IN [data |-> data, data_reverse |-> data_reverse, hidden_forward |-> hidden_forward,
        hidden_reverse_rnn |-> hidden_reverse, hidden_reverse |-> hidden_reverse,
        hidden_concat |-> hidden_concat,
        sequence_length |-> <<data_length, data_length>>]

\* _encode on time-major data: every local of the method, and the
\* sequence_length argument of each of the two SequenceReverse calls.
BiDirectionalRNNEncoder__encode(self, data, data_length, seq_len) ==
    LET data_reverse == SequenceReverse(data, data_length)
        hidden_forward == Recurrent_encode(self.forward_rnn, data, data_length, seq_len)
        hidden_reverse_rnn == Recurrent_encode(self.reverse_rnn, data_reverse, data_length, seq_len)
        hidden_reverse == SequenceReverse(hidden_reverse_rnn, data_length)
        hidden_concat == concat(hidden_forward, hidden_reverse, "rnn")
    IN [data |-> data, data_reverse |-> data_reverse, hidden_forward |-> hidden_forward,
        hidden_reverse_rnn |-> hidden_reverse_rnn, hidden_reverse |-> hidden_reverse,
        hidden_concat |-> hidden_concat,
        sequence_length |-> <<data_length, data_length>>]

\* encode that leaves a batch-major result in time-major layout.
BiDirectionalRNNEncoder_encode_locals_no_swap_back(self, data, data_length, seq_len) ==
    LET tm == IF IsBatchMajor(self.layout) THEN swapaxes(data) ELSE data
        l == BiDirectionalRNNEncoder__encode(self, tm, data_length, seq_len)
    IN [swapped |-> IsBatchMajor(self.layout), locals |-> l, out |-> l.hidden_concat]

\* encode: whether the layout was swapped, the locals of _encode, and in `out`
\* the value returned.
BiDirectionalRNNEncoder_encode_locals(self, data, data_length, seq_len) ==
    LET tm == IF IsBatchMajor(self.layout) THEN swapaxes(data) ELSE data
        l == BiDirectionalRNNEncoder__encode(self, tm, data_length, seq_len)
        out == IF IsBatchMajor(self.layout) THEN swapaxes(l.hidden_concat) ELSE l.hidden_concat
    IN [swapped |-> IsBatchMajor(self.layout), locals |-> l, out |-> out]

BiDirectionalRNNEncoder_encode(self, data, data_length, seq_len) ==
    BiDirectionalRNNEncoder_encode_locals(self, data, data_length, seq_len).out

BiDirectionalRNNEncoder_get_num_hidden(self) == self.num_hidden

\* get_rnn_cells with the reverse cells before the forward cells.
BiDirectionalRNNEncoder_get_rnn_cells_reverse_first(self) ==
    Recurrent_get_rnn_cells(self.reverse_rnn) \o Recurrent_get_rnn_cells(self.forward_rnn)

BiDirectionalRNNEncoder_get_rnn_cells(self) ==
    Recurrent_get_rnn_cells(self.forward_rnn) \o Recurrent_get_rnn_cells(self.reverse_rnn)

----------------------------------------------------------------------------
(* sockeye.layers: the modules a TransformerEncoder layer is made of       *)

MultiHeadAttention(depth_att, heads, depth_out, dropout, prefix, idx) ==
    [kind |-> "MultiHeadAttention", depth_att |-> depth_att, heads |-> heads,
     depth_out |-> depth_out, dropout |-> dropout, prefix |-> prefix, idx |-> idx]

LayerNormalization(num_hidden, prefix, idx) ==
    [kind |-> "LayerNormalization", num_hidden |-> num_hidden, prefix |-> prefix, idx |-> idx]

FFNRelu(prefix, idx, num_hidden, num_model, dropout) ==
    [kind |-> "FFNRelu", num_hidden |-> num_hidden, num_model |-> num_model,
     dropout |-> dropout, prefix |-> prefix, idx |-> idx]

\* attention.on(data, data_length, seq_len) on batch-major data: position
\* (b, t) attends over example b, masked by data_length[b]; depth_out channels.
MultiHeadAttention_on(self, data, data_length, seq_len) ==
    Tensor(3, self.depth_out,
           [b \in 1..Dim0(data) |->
               [t \in 1..Dim1(data) |->
                   <<Tok("attention", self.prefix, self.idx, self.heads),
                     Tok("data_length", <<>>, data_length[b], 0),
                     Tok("seq_len", <<>>, seq_len, 0)>> \o data.el[b][t]]])

\* layer_norm.normalize(inputs): per position, over the channels.
LayerNormalization_normalize(self, inputs) ==
    Tensor(3, inputs.chan,
           [b \in 1..Dim0(inputs) |->
               [t \in 1..Dim1(inputs) |->
                   <<Tok("layer_norm", self.prefix, self.idx, self.num_hidden)>>
                       \o inputs.el[b][t]]])

\* ffn.apply(x, length): position-wise, to num_hidden and back to num_model.
FFNRelu_apply(self, x, length) ==
    Tensor(3, self.num_model,
           [b \in 1..Dim0(x) |->
               [t \in 1..Dim1(x) |->
                   <<Tok("ffn", self.prefix, self.idx, self.num_hidden),
                     Tok("seq_len", <<>>, length, 0)>> \o x.el[b][t]]])

----------------------------------------------------------------------------
(* TransformerEncoder                                                      *)

\* A name of __init__'s frame before the loop has bound it.
Unbound == [kind |-> "unbound", idx |-> -1]

\* __init__'s loop after n iterations: self.layers, and `scope`, the values
\* the local names attention, attention_ln, feed_forward, feed_forward_ln of
\* __init__'s frame are bound to. Every `apply` is a closure over that one
\* frame: it holds the names, not the values they had when it was defined.
RECURSIVE TransformerEncoder_init_loop(_, _)
TransformerEncoder_init_loop(self, n) ==
    IF n = 0
    THEN [layers |-> <<>>,
          scope |-> [attention |-> Unbound, attention_ln |-> Unbound,
                     feed_forward |-> Unbound, feed_forward_ln |-> Unbound]]
    ELSE LET prev == TransformerEncoder_init_loop(self, n - 1)
             i == n - 1
             attention == MultiHeadAttention(self.model_size, self.attention_heads,
                                             self.model_size, self.dropout,
                                             self.prefix \o <<"attn_">>, i)
             attention_ln == LayerNormalization(self.model_size,
                                                self.prefix \o <<"attn_ln_">>, i)
             feed_forward == FFNRelu(self.prefix \o <<"ffn_">>, i,
                                     self.feed_forward_num_hidden, self.model_size,
                                     self.dropout)
             feed_forward_ln == LayerNormalization(self.model_size,
                                                   self.prefix \o <<"ffn_ln_">>, i)
         IN [layers |-> Append(prev.layers, [fn |-> "apply", defined_in |-> i]),
             scope |-> [attention |-> attention, attention_ln |-> attention_ln,
                        feed_forward |-> feed_forward, feed_forward_ln |-> feed_forward_ln]]

TransformerEncoder(model_size, num_layers, attention_heads, feed_forward_num_hidden, dropout, prefix) ==
    LET self == [kind |-> "TransformerEncoder", model_size |-> model_size,
                 num_layers |-> num_layers, attention_heads |-> attention_heads,
                 feed_forward_num_hidden |-> feed_forward_num_hidden,
                 dropout |-> dropout, prefix |-> prefix]
        loop == TransformerEncoder_init_loop(self, num_layers)
    IN [kind |-> "TransformerEncoder", model_size |-> model_size,
        num_layers |-> num_layers, attention_heads |-> attention_heads,
        feed_forward_num_hidden |-> feed_forward_num_hidden,
        dropout |-> dropout, prefix |-> prefix,
        layers |-> loop.layers, scope |-> loop.scope]

\* The modules a call of the closure `layer` resolves its free names to: the
\* current bindings of the frame it closes over.
TransformerEncoder_resolve(self, layer) == self.scope

\* A layer without the residual connection around the attention.
TransformerEncoder_apply_no_residual(self, layer, data, data_length, seq_len) ==
    LET m == self.scope
        encoded_attn ==
            LayerNormalization_normalize(m.attention_ln,
                MultiHeadAttention_on(m.attention, data, data_length, seq_len))
    IN LayerNormalization_normalize(m.feed_forward_ln,
           elemwise_add(encoded_attn, FFNRelu_apply(m.feed_forward, encoded_attn, seq_len)))

\* apply(data, data_length, seq_len), the body of a layer closure.
TransformerEncoder_apply(self, layer, data, data_length, seq_len) ==
    LET m == TransformerEncoder_resolve(self, layer)
        encoded_attn ==
            LayerNormalization_normalize(m.attention_ln,
                elemwise_add(data, MultiHeadAttention_on(m.attention, data, data_length, seq_len)))
        encoded_attn_ffn ==
            LayerNormalization_normalize(m.feed_forward_ln,
                elemwise_add(encoded_attn, FFNRelu_apply(m.feed_forward, encoded_attn, seq_len)))
    IN encoded_attn_ffn

\* encode's loop after the first n layers: `encoded`, and the calls made.
RECURSIVE TransformerEncoder_encode_loop(_, _, _, _, _)
TransformerEncoder_encode_loop(self, n, data, data_length, seq_len) ==
    IF n = 0 THEN [encoded |-> data, calls |-> <<>>]
    ELSE LET prev == TransformerEncoder_encode_loop(self, n - 1, data, data_length, seq_len)
             layer == self.layers[n]
             out == TransformerEncoder_apply(self, layer, prev.encoded, data_length, seq_len)
         IN [encoded |-> out,
             calls |-> Append(prev.calls,
                              [i |-> n - 1, layer |-> layer,
                               modules |-> TransformerEncoder_resolve(self, layer),
                               data |-> prev.encoded, data_length |-> data_length,
                               seq_len |-> seq_len, out |-> out])]

TransformerEncoder_encode(self, data, data_length, seq_len) ==
    TransformerEncoder_encode_loop(self, Len(self.layers), data, data_length, seq_len).encoded

TransformerEncoder_get_num_hidden(self) == self.model_size

TransformerEncoder_get_rnn_cells(self) == <<>>

----------------------------------------------------------------------------
(* Method dispatch over the stage classes                                  *)

Encoder_encode(self, data, data_length, seq_len) ==
    CASE self.kind = "Embedding" -> Embedding_encode(self, data, data_length, seq_len)
      [] self.kind = "BatchMajor2TimeMajor" ->
            BatchMajor2TimeMajor_encode(self, data, data_length, seq_len)
      [] self.kind = "RecurrentEncoder" -> RecurrentEncoder_encode(self, data, data_length, seq_len)
      [] self.kind = "FusedRecurrentEncoder" ->
            FusedRecurrentEncoder_encode(self, data, data_length, seq_len)
      [] self.kind = "BiDirectionalRNNEncoder" ->
            BiDirectionalRNNEncoder_encode(self, data, data_length, seq_len)
      [] self.kind = "TransformerEncoder" ->
            TransformerEncoder_encode(self, data, data_length, seq_len)

Encoder_get_num_hidden(self) ==
    CASE self.kind = "Embedding" -> Embedding_get_num_hidden(self)
      [] self.kind = "BatchMajor2TimeMajor" -> BatchMajor2TimeMajor_get_num_hidden(self)
      [] self.kind = "RecurrentEncoder" -> RecurrentEncoder_get_num_hidden(self)
      [] self.kind = "FusedRecurrentEncoder" -> FusedRecurrentEncoder_get_num_hidden(self)
      [] self.kind = "BiDirectionalRNNEncoder" -> BiDirectionalRNNEncoder_get_num_hidden(self)
      [] self.kind = "TransformerEncoder" -> TransformerEncoder_get_num_hidden(self)

Encoder_get_rnn_cells(self) ==
    CASE self.kind = "Embedding" -> Embedding_get_rnn_cells(self)
      [] self.kind = "BatchMajor2TimeMajor" -> BatchMajor2TimeMajor_get_rnn_cells(self)
      [] self.kind = "RecurrentEncoder" -> RecurrentEncoder_get_rnn_cells(self)
      [] self.kind = "FusedRecurrentEncoder" -> FusedRecurrentEncoder_get_rnn_cells(self)
      [] self.kind = "BiDirectionalRNNEncoder" -> BiDirectionalRNNEncoder_get_rnn_cells(self)
      [] self.kind = "TransformerEncoder" -> TransformerEncoder_get_rnn_cells(self)

----------------------------------------------------------------------------
(* EncoderSequence                                                         *)

EncoderSequence(encoders) == [kind |-> "EncoderSequence", encoders |-> encoders]

\* encode's loop running over the encoders from the last to the first.
RECURSIVE EncoderSequence_encode_loop_reversed(_, _, _, _, _)
EncoderSequence_encode_loop_reversed(self, n, data, data_length, seq_len) ==
    IF n = 0 THEN [data |-> data, calls |-> <<>>]
    ELSE LET prev == EncoderSequence_encode_loop_reversed(self, n - 1, data, data_length, seq_len)
             encoder == self.encoders[Len(self.encoders) - n + 1]
             out == Encoder_encode(encoder, prev.data, data_length, seq_len)
         IN [data |-> out,
             calls |-> Append(prev.calls,
                              [encoder |-> encoder, data |-> prev.data,
                               data_length |-> data_length, seq_len |-> seq_len,
                               out |-> out])]

\* encode's loop after the first n encoders: `data`, and the calls made.
RECURSIVE EncoderSequence_encode_loop(_, _, _, _, _)
EncoderSequence_encode_loop(self, n, data, data_length, seq_len) ==
    IF n = 0 THEN [data |-> data, calls |-> <<>>]
    ELSE LET prev == EncoderSequence_encode_loop(self, n - 1, data, data_length, seq_len)
             encoder == self.encoders[n]
             out == Encoder_encode(encoder, prev.data, data_length, seq_len)
         IN [data |-> out,
             calls |-> Append(prev.calls,
                              [encoder |-> encoder, data |-> prev.data,
                               data_length |-> data_length, seq_len |-> seq_len,
                               out |-> out])]

EncoderSequence_encode(self, data, data_length, seq_len) ==
    EncoderSequence_encode_loop(self, Len(self.encoders), data, data_length, seq_len).data

\* self.encoders[-1].get_num_hidden(): an IndexError on an empty list.
EncoderSequence_get_num_hidden(self) ==
    IF Len(self.encoders) = 0
    THEN [raised |-> "IndexError", value |-> 0]
    ELSE [raised |-> "",
          value |-> Encoder_get_num_hidden(self.encoders[Len(self.encoders)])]

\* cells after the first n encoders
RECURSIVE EncoderSequence_get_rnn_cells_loop(_, _)
EncoderSequence_get_rnn_cells_loop(self, n) ==
    IF n = 0 THEN <<>>
    ELSE EncoderSequence_get_rnn_cells_loop(self, n - 1)
             \o Encoder_get_rnn_cells(self.encoders[n])

EncoderSequence_get_rnn_cells(self) ==
    EncoderSequence_get_rnn_cells_loop(self, Len(self.encoders))

----------------------------------------------------------------------------
(* The builders                                                            *)

SOURCE_EMBEDDING_PREFIX == <<"SOURCE_EMBEDDING_PREFIX">>
BIDIRECTIONALRNN_PREFIX == <<"BIDIRECTIONALRNN_PREFIX">>
STACKEDRNN_PREFIX == <<"STACKEDRNN_PREFIX">>
TRANSFORMER_ENCODER_PREFIX == <<"TRANSFORMER_ENCODER_PREFIX">>

\* The result holds the exception raised ("" for none), the pipeline, and in
\* `made` the sub-encoders the BiDirectionalRNNEncoder constructor made.
get_encoder_rnn(num_embed, vocab_size, num_layers, rnn_num_hidden, cell_type, residual, dropout, forget_bias, fused) ==
    LET encoders1 == <<Embedding(num_embed, vocab_size, SOURCE_EMBEDDING_PREFIX, dropout, FALSE),
                       BatchMajor2TimeMajor_default>>
        encoder_class == IF fused THEN "FusedRecurrentEncoder" ELSE "RecurrentEncoder"
        bi == BiDirectionalRNNEncoder(rnn_num_hidden, 1, BIDIRECTIONALRNN_PREFIX, dropout,
                                      TIME_MAJOR, cell_type, encoder_class, forget_bias)
        encoders2 == Append(encoders1, bi.self)
        encoders3 ==
            IF num_layers > 1
            THEN Append(encoders2,
                        encoder_class_new(encoder_class, rnn_num_hidden, num_layers - 1,
                                          STACKEDRNN_PREFIX, dropout, TIME_MAJOR,
                                          cell_type, residual, forget_bias))
            ELSE encoders2
    IN IF bi.raised # ""
       THEN [raised |-> bi.raised, self |-> NoObject, made |-> bi.made]
       ELSE [raised |-> "", self |-> EncoderSequence(encoders3), made |-> bi.made]

\* The builder with the last stage left at its default width.
get_encoder_transformer_default_width(model_size, vocab_size, num_layers, attention_heads, feed_forward_num_hidden, dropout) ==
    EncoderSequence(
        <<Embedding(model_size, vocab_size, SOURCE_EMBEDDING_PREFIX, dropout, TRUE),
          TransformerEncoder(model_size, num_layers, attention_heads,
                             feed_forward_num_hidden, dropout, TRANSFORMER_ENCODER_PREFIX),
          BatchMajor2TimeMajor_default>>)

get_encoder_transformer(model_size, vocab_size, num_layers, attention_heads, feed_forward_num_hidden, dropout) ==
    EncoderSequence(
        <<Embedding(model_size, vocab_size, SOURCE_EMBEDDING_PREFIX, dropout, TRUE),
          TransformerEncoder(model_size, num_layers, attention_heads,
                             feed_forward_num_hidden, dropout, TRANSFORMER_ENCODER_PREFIX),
          BatchMajor2TimeMajor(model_size)>>)

----------------------------------------------------------------------------
(* sockeye/initializer.py                                                  *)
(*                                                                         *)
(* A weight array is modelled by its shape and its rows along the first    *)
(* axis, each row the sequence of its entries. An entry stands for the     *)
(* number scale * fn(i, j, k): fn "one" is the constant 1, "sin" and "cos" *)
(* are the sinusoids of position i and channel j of k, "svd_uniform" and   *)
(* "svd_normal" are entry (j, k) of the matrix q of draw i.                *)

MaxTableLen == 4
MaxRows == 4
MaxCols == 2

WeightEntry(fn, scale, i, j, k) == [fn |-> fn, scale |-> scale, i |-> i, j |-> j, k |-> k]

\* What an array holds before an initializer has written it.
Unwritten == WeightEntry("unwritten", 0, 0, 0, 0)

\* The number of entries of one row: the product of the axes after the first.
RECURSIVE RowSize(_)
RowSize(shape) ==
    IF Len(shape) <= 1 THEN 1 ELSE shape[2] * RowSize(Tail(shape))

\* A fresh array of the shape.
NDArray(shape) ==
    [shape |-> shape,
     el |-> Rows([r \in 1..shape[1] |-> [c \in 1..RowSize(shape) |-> Unwritten]])]

\* arr[begin:end] = value
SetRows(arr, begin, end, value) ==
    [arr EXCEPT !.el = Rows([r \in 1..Len(arr.el) |->
                                IF begin < r /\ r <= end THEN value[r - begin] ELSE arr.el[r]])]

\* np.arange(start, stop, step) for step > 0
arange(start, stop, step) ==
    [n \in 1..((stop - start + step - 1) \div step) |-> start + (n - 1) * step] \o <<>>

\* np.eye(n)
eye(n) ==
    Rows([r \in 1..n |-> [c \in 1..n |-> WeightEntry("one", IF r = c THEN 1 ELSE 0, 0, 0, 0)]])

\* The q of np.linalg.svd(tmp), tmp the (n, n) matrix drawn for block mat_idx.
svd_q(rand_type, mat_idx, n) ==
    Rows([r \in 1..n |-> [c \in 1..n |->
              WeightEntry(IF rand_type = "uniform" THEN "svd_uniform" ELSE "svd_normal",
                          1, mat_idx, r - 1, c - 1)]])

\* q left as it is.
times_unscaled(scale, q) ==
    Rows([r \in 1..Len(q) |-> [c \in 1..Len(q[r]) |-> q[r][c]]])

\* scale * q
times(scale, q) ==
    Rows([r \in 1..Len(q) |-> [c \in 1..Len(q[r]) |-> [q[r][c] EXCEPT !.scale = scale * @]]])

\* np.sin or np.cos of positions / np.power(10000, (2 * channels) / num_embed),
\* positions a column and channels a row: entry (n, c) is that of
\* positions[n] and channels[c].
Sinusoid(fn, positions, channels, num_embed) ==
    Rows([n \in 1..Len(positions) |-> [c \in 1..Len(channels) |->
              WeightEntry(fn, 1, positions[n], channels[c], num_embed)]])

\* np.hstack([a, b]) of two 2-D arrays: the rows side by side; the arrays
\* must have the same number of rows.
hstack(a, b) ==
    IF Len(a) # Len(b)
    THEN [raised |-> "ValueError", value |-> <<>>]
    ELSE [raised |-> "", value |-> Rows([n \in 1..Len(a) |-> a[n] \o b[n]])]

\* The entries of a 2-D array in row-major order.
RECURSIVE ravel(_)
ravel(a) ==
    IF Len(a) = 0 THEN <<>> ELSE a[1] \o ravel(Tail(a))

\* a.reshape((rows, cols))
reshape(a, rows, cols) ==
    IF Len(ravel(a)) # rows * cols
    THEN [raised |-> "ValueError", value |-> <<>>]
    ELSE [raised |-> "",
          value |-> Rows([r \in 1..rows |-> SubSeq(ravel(a), (r - 1) * cols + 1, r * cols)])]

RNN_INIT_ORTHOGONAL == "orthogonal"
RNN_INIT_ORTHOGONAL_STACKED == "orthogonal_stacked"
LEXICON_NAME == "lexicon"

Orthogonal == [kind |-> "Orthogonal"]
Xavier(factor_type, magnitude) ==
    [kind |-> "Xavier", factor_type |-> factor_type, magnitude |-> magnitude]
LexiconInitializer(lexicon) == [kind |-> "LexiconInitializer", lexicon |-> lexicon]
Mixed(patterns, initializers) ==
    [kind |-> "Mixed", patterns |-> patterns, initializers |-> initializers]

StackedOrthogonalInit(scale, rand_type) ==
    [kind |-> "StackedOrthogonalInit", scale |-> scale, rand_type |-> rand_type]

\* The result holds the exception raised ("" for none) and the initializer.
get_initializer(rnn_init_type, lexicon) ==
    LET h2h_init == IF rnn_init_type = RNN_INIT_ORTHOGONAL
                    THEN Orthogonal
                    ELSE StackedOrthogonalInit(1, "eye")
        lexicon_init == IF lexicon # NoObject THEN LexiconInitializer(lexicon) ELSE NoObject
    IN IF rnn_init_type \notin {RNN_INIT_ORTHOGONAL, RNN_INIT_ORTHOGONAL_STACKED}
       THEN [raised |-> "ValueError", self |-> NoObject, made |-> <<>>]
       ELSE [raised |-> "",
             self |-> Mixed(<<".*h2h.*", LEXICON_NAME, ".*">>,
                            <<h2h_init, lexicon_init, Xavier("in", "2.34")>>),
             made |-> <<>>]

\* The loop with an unrecognized rand_type treated as "eye".
RECURSIVE StackedOrthogonalInit_loop_default_eye(_, _, _)
StackedOrthogonalInit_loop_default_eye(self, arr, n) ==
    IF n = 0 THEN [raised |-> "", arr |-> arr, writes |-> <<>>]
    ELSE LET prev == StackedOrthogonalInit_loop_default_eye(self, arr, n - 1)
             mat_idx == n - 1
             base_dim == arr.shape[2]
             q == IF self.rand_type \in {"uniform", "normal"}
                  THEN svd_q(self.rand_type, mat_idx, base_dim)
                  ELSE eye(base_dim)
             begin == mat_idx * base_dim
             end == mat_idx * base_dim + base_dim
         IN [raised |-> "",
             arr |-> SetRows(prev.arr, begin, end, times(self.scale, q)),
             writes |-> Append(prev.writes, [begin |-> begin, end |-> end, q |-> q])]

\* The loop of _init_weight after its iterations mat_idx = 0..n-1: the
\* exception raised, the array, and the slice assignments made with the q of
\* each.
RECURSIVE StackedOrthogonalInit_loop(_, _, _)
StackedOrthogonalInit_loop(self, arr, n) ==
    IF n = 0 THEN [raised |-> "", arr |-> arr, writes |-> <<>>]
    ELSE LET prev == StackedOrthogonalInit_loop(self, arr, n - 1)
             mat_idx == n - 1
             base_dim == arr.shape[2]
             q == IF self.rand_type = "eye" THEN eye(base_dim)
                  ELSE svd_q(self.rand_type, mat_idx, base_dim)
             begin == mat_idx * base_dim
             end == mat_idx * base_dim + base_dim
         IN IF prev.raised # "" THEN prev
            ELSE IF self.rand_type \notin {"uniform", "normal", "eye"}
            THEN [prev EXCEPT !.raised = "ValueError"]
            ELSE [raised |-> "",
                  arr |-> SetRows(prev.arr, begin, end, times(self.scale, q)),
                  writes |-> Append(prev.writes, [begin |-> begin, end |-> end, q |-> q])]

StackedOrthogonalInit__init_weight(self, sym_name, arr) ==
    IF Len(arr.shape) # 2
    THEN [raised |-> "AssertionError", arr |-> arr, writes |-> <<>>]
    ELSE LET base_dim == arr.shape[2]
             stacked_dim == arr.shape[1]
         IN IF stacked_dim % base_dim # 0
            THEN [raised |-> "AssertionError", arr |-> arr, writes |-> <<>>]
            ELSE StackedOrthogonalInit_loop(self, arr, stacked_dim \div base_dim)

PositionalEncodingInitializer(max_seq_len_, num_embed) ==
    [kind |-> "PositionalEncodingInitializer", max_seq_len |-> max_seq_len_,
     num_embed |-> num_embed]

PositionalEncodingInitializer__init_weight(self, name, arr) ==
    LET positions_even == arange(0, self.max_seq_len, 2)
        positions_odd == arange(1, self.max_seq_len, 2)
        channels == arange(0, self.num_embed, 1)
        sin == Sinusoid("sin", positions_even, channels, self.num_embed)
        cos == Sinusoid("cos", positions_odd, channels, self.num_embed)
        stacked == hstack(sin, cos)
        positional_encodings == reshape(stacked.value, self.max_seq_len, self.num_embed)
    IN IF arr.shape # <<self.max_seq_len, self.num_embed>>
       THEN [raised |-> "AssertionError", arr |-> arr, writes |-> <<>>]
       ELSE IF stacked.raised # ""
       THEN [raised |-> stacked.raised, arr |-> arr, writes |-> <<>>]
       ELSE IF positional_encodings.raised # ""
       THEN [raised |-> positional_encodings.raised, arr |-> arr, writes |-> <<>>]
       ELSE [raised |-> "",
             arr |-> SetRows(arr, 0, Len(arr.el), positional_encodings.value),
             writes |-> <<[begin |-> 0, end |-> Len(arr.el),
                           q |-> positional_encodings.value]>>]

----------------------------------------------------------------------------
(* The client: it constructs one encoder, then calls its methods           *)

VocabSizes == {10}
DropoutPercents == {0, 10}
CellTypes == {"lstm"}
ForgetBiases == {0}
AttentionHeads == {1}
FeedForwardSizes == {4}
Layouts == {TIME_MAJOR, BATCH_MAJOR}
EncoderClasses == {"RecurrentEncoder", "FusedRecurrentEncoder"}

\* The stage lists a client hands to EncoderSequence directly.
ClientStages(k) ==
    SubSeq(<<Embedding(1, 10, SOURCE_EMBEDDING_PREFIX, 0, FALSE), BatchMajor2TimeMajor(1)>>, 1, k)

Init ==
    /\ pc = "start"
    /\ obj = NoObject
    /\ obj0 = NoObject
    /\ built = [op |-> "none"]
    /\ call = [op |-> "none"]
    /\ ret = <<>>
    /\ raised = ""
    /\ ctor_calls = <<>>
    /\ stage_calls = <<>>
    /\ layer_calls = <<>>
    /\ bi_locals = <<>>

\* The object a constructor or builder returned, or the exception it raised.
Constructed(r, c) ==
    /\ pc' = IF r.raised = "" THEN "ready" ELSE "failed"
    /\ obj' = r.self
    /\ obj0' = r.self
    /\ built' = c
    /\ raised' = r.raised
    /\ ctor_calls' = r.made
    /\ UNCHANGED <<call, ret, stage_calls, layer_calls, bi_locals>>

Call_get_encoder_rnn ==
    /\ pc = "start"
    /\ \E num_embed \in 1..MaxEmbed, vocab_size \in VocabSizes, num_layers \in 1..MaxLayers,
          rnn_num_hidden \in 1..MaxHidden, cell_type \in CellTypes, residual \in BOOLEAN,
          dropout \in DropoutPercents, forget_bias \in ForgetBiases, fused \in BOOLEAN :
          Constructed(get_encoder_rnn(num_embed, vocab_size, num_layers, rnn_num_hidden,
                                      cell_type, residual, dropout, forget_bias, fused),
                      [op |-> "get_encoder_rnn", num_embed |-> num_embed,
                       num_layers |-> num_layers, rnn_num_hidden |-> rnn_num_hidden,
                       residual |-> residual, dropout |-> dropout, fused |-> fused,
                       vocab_size |-> vocab_size, cell_type |-> cell_type,
                       forget_bias |-> forget_bias])

Call_get_encoder_transformer ==
    /\ pc = "start"
    /\ \E model_size \in 1..MaxEmbed, vocab_size \in VocabSizes, num_layers \in 0..MaxLayers,
          attention_heads \in AttentionHeads, feed_forward_num_hidden \in FeedForwardSizes,
          dropout \in DropoutPercents :
          Constructed([raised |-> "", made |-> <<>>,
                       self |-> get_encoder_transformer(model_size, vocab_size, num_layers,
                                    attention_heads, feed_forward_num_hidden, dropout)],
                      [op |-> "get_encoder_transformer", model_size |-> model_size,
                       num_layers |-> num_layers, dropout |-> dropout])

New_EncoderSequence ==
    /\ pc = "start"
    /\ \E k \in 0..2 :
          Constructed([raised |-> "", made |-> <<>>, self |-> EncoderSequence(ClientStages(k))],
                      [op |-> "EncoderSequence", num_encoders |-> k])

New_BiDirectionalRNNEncoder ==
    /\ pc = "start"
    /\ \E num_hidden \in 0..MaxHidden, layout \in Layouts, cell_type \in CellTypes,
          encoder_class \in EncoderClasses, forget_bias \in ForgetBiases :
          Constructed(BiDirectionalRNNEncoder(num_hidden, 1, BIDIRECTIONALRNN_PREFIX, 0,
                                              layout, cell_type, encoder_class, forget_bias),
                      [op |-> "BiDirectionalRNNEncoder", num_hidden |-> num_hidden,
                       layout |-> layout, encoder_class |-> encoder_class])

New_TransformerEncoder ==
    /\ pc = "start"
    /\ \E model_size \in 1..MaxEmbed, num_layers \in 0..MaxLayers,
          attention_heads \in AttentionHeads, feed_forward_num_hidden \in FeedForwardSizes :
          Constructed([raised |-> "", made |-> <<>>,
                       self |-> TransformerEncoder(model_size, num_layers, attention_heads,
                                    feed_forward_num_hidden, 0, TRANSFORMER_ENCODER_PREFIX)],
                      [op |-> "TransformerEncoder", model_size |-> model_size,
                       num_layers |-> num_layers])

\* pipeline.encode(data, data_length, seq_len) on a (batch, seq_len) index batch
Call_EncoderSequence_encode ==
    /\ pc = "ready" /\ obj.kind = "EncoderSequence"
    /\ \E B \in 1..MaxBatch, T \in 1..MaxSeqLen : \E data_length \in [1..B -> 1..T] :
          LET data == IndexBatch(B, T)
              r == EncoderSequence_encode_loop(obj, Len(obj.encoders), data, data_length, T)
          IN /\ call' = [op |-> "encode", data |-> data, data_length |-> data_length,
                         seq_len |-> T]
             /\ ret' = r.data
             /\ stage_calls' = r.calls
    /\ raised' = ""
    /\ pc' = "returned"
    /\ UNCHANGED <<obj, obj0, built, ctor_calls, layer_calls, bi_locals>>

\* bi.encode(data, data_length, seq_len) on data in the layout of the instance
Call_BiDirectionalRNNEncoder_encode ==
    /\ pc = "ready" /\ obj.kind = "BiDirectionalRNNEncoder"
    /\ \E B \in 1..MaxBatch, T \in 1..MaxSeqLen, D_in \in 1..MaxEmbed :
       \E data_length \in [1..B -> 1..T] :
          LET data == IF IsBatchMajor(obj.layout) THEN InputTensor(B, T, D_in)
                                                 ELSE InputTensor(T, B, D_in)
              r == BiDirectionalRNNEncoder_encode_locals(obj, data, data_length, T)
          IN /\ call' = [op |-> "encode", data |-> data, data_length |-> data_length,
                         seq_len |-> T]
             /\ ret' = r.out
             /\ bi_locals' = <<r>>
    /\ raised' = ""
    /\ pc' = "returned"
    /\ UNCHANGED <<obj, obj0, built, ctor_calls, stage_calls, layer_calls>>

\* transformer.encode(data, data_length, seq_len) on (batch, seq_len, model_size)
Call_TransformerEncoder_encode ==
    /\ pc = "ready" /\ obj.kind = "TransformerEncoder"
    /\ \E B \in 1..MaxBatch, T \in 1..MaxSeqLen : \E data_length \in [1..B -> 1..T] :
          LET data == InputTensor(B, T, obj.model_size)
              r == TransformerEncoder_encode_loop(obj, Len(obj.layers), data, data_length, T)
          IN /\ call' = [op |-> "encode", data |-> data, data_length |-> data_length,
                         seq_len |-> T]
             /\ ret' = r.encoded
             /\ layer_calls' = r.calls
    /\ raised' = ""
    /\ pc' = "returned"
    /\ UNCHANGED <<obj, obj0, built, ctor_calls, stage_calls, bi_locals>>

Call_get_num_hidden ==
    /\ pc = "ready"
    /\ LET r == IF obj.kind = "EncoderSequence"
                THEN EncoderSequence_get_num_hidden(obj)
                ELSE [raised |-> "", value |-> Encoder_get_num_hidden(obj)]
       IN /\ ret' = r.value
          /\ raised' = r.raised
    /\ call' = [op |-> "get_num_hidden"]
    /\ pc' = "returned"
    /\ UNCHANGED <<obj, obj0, built, ctor_calls, stage_calls, layer_calls, bi_locals>>

Call_get_rnn_cells ==
    /\ pc = "ready"
    /\ ret' = IF obj.kind = "EncoderSequence"
              THEN EncoderSequence_get_rnn_cells(obj)
              ELSE Encoder_get_rnn_cells(obj)
    /\ raised' = ""
    /\ call' = [op |-> "get_rnn_cells"]
    /\ pc' = "returned"
    /\ UNCHANGED <<obj, obj0, built, ctor_calls, stage_calls, layer_calls, bi_locals>>

\* The client takes the result and is free to call the object again.
Client_continue ==
    /\ pc = "returned"
    /\ pc' = "ready"
    /\ call' = [op |-> "none"]
    /\ ret' = <<>>
    /\ raised' = ""
    /\ stage_calls' = <<>>
    /\ layer_calls' = <<>>
    /\ bi_locals' = <<>>
    /\ UNCHANGED <<obj, obj0, built, ctor_calls>>

Next ==
    \/ Call_get_encoder_rnn
    \/ Call_get_encoder_transformer
    \/ New_EncoderSequence
    \/ New_BiDirectionalRNNEncoder
    \/ New_TransformerEncoder
    \/ Call_EncoderSequence_encode
    \/ Call_BiDirectionalRNNEncoder_encode
    \/ Call_TransformerEncoder_encode
    \/ Call_get_num_hidden
    \/ Call_get_rnn_cells
    \/ Client_continue

Spec == Init /\ [][Next]_vars

----------------------------------------------------------------------------
(* The client of initializer.py: it builds one initializer, then has it    *)
(* initialize weight arrays; or it builds an Embedding and encodes with it *)

RnnInitTypes == {RNN_INIT_ORTHOGONAL, RNN_INIT_ORTHOGONAL_STACKED, "xavier", ""}
Lexicons == {NoObject, [kind |-> "NDArray"]}
Scales == {1, 2}
RandTypes == {"uniform", "normal", "eye", "gaussian", ""}

\* The shapes of the arrays handed to an initializer: 1-D, 2-D and 3-D.
ArrayShapes ==
    {<<r>> : r \in 1..MaxRows}
        \cup {<<r, c>> : r \in 1..MaxRows, c \in 1..MaxCols}
        \cup {<<r, c, 1>> : r \in 1..MaxCols, c \in 1..MaxCols}

Call_get_initializer ==
    /\ pc = "start"
    /\ \E rnn_init_type \in RnnInitTypes, lexicon \in Lexicons :
          Constructed(get_initializer(rnn_init_type, lexicon),
                      [op |-> "get_initializer", rnn_init_type |-> rnn_init_type,
                       lexicon |-> lexicon])

New_StackedOrthogonalInit ==
    /\ pc = "start"
    /\ \E scale \in Scales, rand_type \in RandTypes :
          Constructed([raised |-> "", made |-> <<>>,
                       self |-> StackedOrthogonalInit(scale, rand_type)],
                      [op |-> "StackedOrthogonalInit", scale |-> scale,
                       rand_type |-> rand_type])

New_PositionalEncodingInitializer ==
    /\ pc = "start"
    /\ \E max_seq_len_ \in 1..MaxTableLen, num_embed \in 1..MaxEmbed :
          Constructed([raised |-> "", made |-> <<>>,
                       self |-> PositionalEncodingInitializer(max_seq_len_, num_embed)],
                      [op |-> "PositionalEncodingInitializer",
                       max_seq_len |-> max_seq_len_, num_embed |-> num_embed])

New_Embedding ==
    /\ pc = "start"
    /\ \E num_embed \in 1..MaxEmbed, vocab_size \in VocabSizes, dropout \in DropoutPercents,
          add_positional_encoding \in BOOLEAN :
          Constructed([raised |-> "", made |-> <<>>,
                       self |-> Embedding(num_embed, vocab_size, SOURCE_EMBEDDING_PREFIX,
                                          dropout, add_positional_encoding)],
                      [op |-> "Embedding", num_embed |-> num_embed, dropout |-> dropout,
                       add_positional_encoding |-> add_positional_encoding])

\* initializer._init_weight(name, arr) on a fresh array
Call_StackedOrthogonalInit__init_weight ==
    /\ pc = "ready" /\ obj.kind = "StackedOrthogonalInit"
    /\ \E shape \in ArrayShapes :
          LET r == StackedOrthogonalInit__init_weight(obj, "h2h_weight", NDArray(shape))
          IN /\ call' = [op |-> "_init_weight", arr |-> NDArray(shape)]
             /\ ret' = [arr |-> r.arr, writes |-> r.writes]
             /\ raised' = r.raised
    /\ pc' = "returned"
    /\ UNCHANGED <<obj, obj0, built, ctor_calls, stage_calls, layer_calls, bi_locals>>

Call_PositionalEncodingInitializer__init_weight ==
    /\ pc = "ready" /\ obj.kind = "PositionalEncodingInitializer"
    /\ \E shape \in ArrayShapes :
          LET r == PositionalEncodingInitializer__init_weight(obj, "positional_encodings",
                                                              NDArray(shape))
          IN /\ call' = [op |-> "_init_weight", arr |-> NDArray(shape)]
             /\ ret' = [arr |-> r.arr, writes |-> r.writes]
             /\ raised' = r.raised
    /\ pc' = "returned"
    /\ UNCHANGED <<obj, obj0, built, ctor_calls, stage_calls, layer_calls, bi_locals>>

\* embedding.encode(data, data_length, seq_len) on a (batch, seq_len) index batch
Call_Embedding_encode ==
    /\ pc = "ready" /\ obj.kind = "Embedding"
    /\ \E B \in 1..MaxBatch, T \in 1..MaxSeqLen : \E data_length \in [1..B -> 1..T] :
          /\ call' = [op |-> "encode", data |-> IndexBatch(B, T),
                      data_length |-> data_length, seq_len |-> T]
          /\ ret' = Embedding_encode(obj, IndexBatch(B, T), data_length, T)
    /\ raised' = ""
    /\ pc' = "returned"
    /\ UNCHANGED <<obj, obj0, built, ctor_calls, stage_calls, layer_calls, bi_locals>>

InitializerNext ==
    \/ Call_get_initializer
    \/ New_StackedOrthogonalInit
    \/ New_PositionalEncodingInitializer
    \/ New_Embedding
    \/ Call_StackedOrthogonalInit__init_weight
    \/ Call_PositionalEncodingInitializer__init_weight
    \/ Call_Embedding_encode
    \/ Client_continue

InitializerSpec == Init /\ [][InitializerNext]_vars

----------------------------------------------------------------------------
(* Claims                                                                  *)

\* A TransformerEncoder.encode call has returned.
TransformerEncodeReturned ==
    pc = "returned" /\ obj.kind = "TransformerEncoder" /\ call.op = "encode"

\* C1: in a TransformerEncoder built with num_layers = n, step i of encode
\* (i in 0..n-1) is the closure defined in iteration i of the constructor and
\* applies the attention, attention layer-norm, feed-forward and feed-forward
\* layer-norm modules constructed in that iteration (those with index i in
\* their prefix), and no module of another layer.
C1_StepUsesOwnModules ==
    TransformerEncodeReturned =>
        /\ Len(layer_calls) = obj.num_layers
        /\ \A k \in 1..Len(layer_calls) :
              LET c == layer_calls[k]
              IN /\ c.i = k - 1
                 /\ c.layer.defined_in = c.i
                 /\ c.modules.attention.idx = c.i
                 /\ c.modules.attention_ln.idx = c.i
                 /\ c.modules.feed_forward.idx = c.i
                 /\ c.modules.feed_forward_ln.idx = c.i

\* The post-norm layer transform with the modules m, as the claim states it:
\* x1 = LN_attn(x + SelfAttention(x, lengths, max_len)), x2 = LN_ffn(x1 + FFN(x1)).
C2_PostNorm(m, x, lengths, max_len) ==
    LET x1 == LayerNormalization_normalize(m.attention_ln,
                  elemwise_add(x, MultiHeadAttention_on(m.attention, x, lengths, max_len)))
    IN LayerNormalization_normalize(m.feed_forward_ln,
           elemwise_add(x1, FFNRelu_apply(m.feed_forward, x1, max_len)))

\* C2: TransformerEncoder.encode returns the n-fold composition of the
\* post-norm layer transform: the first layer gets the input, each later layer
\* the output of the layer before it, every layer the same lengths and max_len,
\* the last layer's output is returned, and with no layers the input itself.
C2_EncodeIsComposition ==
    TransformerEncodeReturned =>
        /\ Len(layer_calls) = obj.num_layers
        /\ \A k \in 1..Len(layer_calls) :
              LET c == layer_calls[k]
              IN /\ c.data = IF k = 1 THEN call.data ELSE layer_calls[k - 1].out
                 /\ c.data_length = call.data_length
                 /\ c.seq_len = call.seq_len
                 /\ c.out = C2_PostNorm(c.modules, c.data, call.data_length, call.seq_len)
        /\ ret = IF obj.num_layers = 0 THEN call.data
                 ELSE layer_calls[obj.num_layers].out
        /\ Shape(ret) = Shape(call.data)

\* A two-layer encode of a batch of two examples of different lengths returned.
C2_Witness ==
    /\ TransformerEncodeReturned
    /\ obj.num_layers = 2
    /\ Len(call.data_length) = 2
    /\ call.data_length[1] # call.data_length[2]
    /\ ret # call.data

\* The object is a pipeline one of the two builders returned.
BuiltByBuilder ==
    /\ pc \in {"ready", "returned"}
    /\ built.op \in {"get_encoder_rnn", "get_encoder_transformer"}

\* C3: for a pipeline returned by get_encoder_rnn (even rnn_num_hidden, any
\* num_layers >= 1, fused or not) or by get_encoder_transformer,
\* get_num_hidden() equals the trailing (channel) dimension of the tensor
\* encode returns.
C3_PipelineWidth ==
    (BuiltByBuilder /\ pc = "returned" /\ call.op = "encode") =>
        /\ ret.rank = 3
        /\ EncoderSequence_get_num_hidden(obj).raised = ""
        /\ EncoderSequence_get_num_hidden(obj).value = Shape(ret)[3]

\* encode returned on a fused three-stage-plus-stack recurrent pipeline.
C3_Witness ==
    /\ BuiltByBuilder /\ pc = "returned" /\ call.op = "encode"
    /\ built.op = "get_encoder_rnn" /\ built.num_layers > 1 /\ built.fused
    /\ built.rnn_num_hidden = 2 /\ built.num_embed = 1
    /\ Shape(ret) = <<call.seq_len, Len(call.data_length), 2>>

\* C4: for every stage of a pipeline a builder returned, get_num_hidden() of
\* the stage equals the trailing (channel) dimension of the tensor the
\* stage's encode returns.
C4_StageWidth ==
    (BuiltByBuilder /\ pc = "returned" /\ call.op = "encode") =>
        \A k \in 1..Len(stage_calls) :
            Encoder_get_num_hidden(stage_calls[k].encoder) = Shape(stage_calls[k].out)[3]

\* C5: BiDirectionalRNNEncoder(num_hidden = D) succeeds for every even D, each
\* sub-stage then having width D/2, and fails with a configuration error for
\* every odd D, before the forward or the reverse sub-stage is created.
C5_EvenOrFail ==
    built.op = "BiDirectionalRNNEncoder" =>
        IF built.num_hidden % 2 = 0
        THEN /\ pc \in {"ready", "returned"}
             /\ obj.kind = "BiDirectionalRNNEncoder"
             /\ obj.num_hidden = built.num_hidden
             /\ Len(ctor_calls) = 2
             /\ ctor_calls[1] = obj.forward_rnn /\ ctor_calls[2] = obj.reverse_rnn
             /\ obj.forward_rnn.kind = built.encoder_class
             /\ obj.reverse_rnn.kind = built.encoder_class
             /\ 2 * obj.forward_rnn.num_hidden = built.num_hidden
             /\ 2 * obj.reverse_rnn.num_hidden = built.num_hidden
             /\ \A i \in 1..2 : \A j \in 1..Len(Recurrent_get_rnn_cells(ctor_calls[i])) :
                   2 * Recurrent_get_rnn_cells(ctor_calls[i])[j].num_hidden = built.num_hidden
        ELSE /\ pc = "failed"
             /\ raised = "SockeyeError"
             /\ obj.kind = "none"
             /\ ctor_calls = <<>>

\* The constructor was called with an odd width and raised.
C5_Witness ==
    /\ built.op = "BiDirectionalRNNEncoder" /\ built.num_hidden = 3
    /\ pc = "failed" /\ raised = "SockeyeError"

\* A BiDirectionalRNNEncoder.encode call has returned.
BiEncodeReturned ==
    pc = "returned" /\ obj.kind = "BiDirectionalRNNEncoder" /\ call.op = "encode"

\* The input of the recurrence step that produced the hidden state h: the
\* operand that follows the step's own node.
C6_StepInput(h, x) == SubSeq(h, 2, 1 + Len(x)) = x

\* C6: in BiDirectionalRNNEncoder._encode both length-aware reversals get the
\* same lengths vector and compose to the identity. For every example b with
\* valid length L_b: the reverse stage's output for input position p <= L_b
\* ends up at output position p, concatenated there with the forward stage's
\* output for position p; every padding position t > L_b stays at position t
\* in each of the two reversals.
C6_ReversalsCompose ==
    BiEncodeReturned =>
        LET l == bi_locals[1].locals
            L == call.data_length
            T == Dim0(l.data)
        IN /\ l.sequence_length = <<L, L>>
           /\ SequenceReverse(l.data_reverse, L) = l.data
           /\ \A b \in 1..Len(L) : \A t \in 1..T :
                 IF t <= L[b]
                 THEN /\ l.data_reverse.el[L[b] - t + 1][b] = l.data.el[t][b]
                      /\ l.hidden_reverse.el[t][b] = l.hidden_reverse_rnn.el[L[b] - t + 1][b]
                      /\ C6_StepInput(l.hidden_reverse.el[t][b], l.data.el[t][b])
                      /\ C6_StepInput(l.hidden_forward.el[t][b], l.data.el[t][b])
                      /\ l.hidden_reverse.el[t][b][1].j = L[b] - t + 1
                 ELSE /\ l.data_reverse.el[t][b] = l.data.el[t][b]
                      /\ l.hidden_reverse.el[t][b] = l.hidden_reverse_rnn.el[t][b]
           /\ \A b \in 1..Len(L) : \A t \in 1..T :
                 l.hidden_concat.el[t][b] =
                     <<Tok("concat", <<"rnn">>, 0, 0)>>
                         \o l.hidden_forward.el[t][b] \o l.hidden_reverse.el[t][b]

\* A batch of two examples went through, one of full length 3, one of length 2
\* with one padding step.
C6_Witness ==
    /\ BiEncodeReturned
    /\ call.data_length = <<3, 2>> /\ call.seq_len = 3
    /\ bi_locals[1].locals.data_reverse # bi_locals[1].locals.data
    /\ bi_locals[1].locals.hidden_reverse # bi_locals[1].locals.hidden_reverse_rnn

\* C7: the axis swap is self-inverse (applied twice it gives back the shape
\* and the element order). A BiDirectionalRNNEncoder with batch-major layout
\* swaps its input to time-major before _encode and its result back, so
\* (batch, time, D_in) gives (batch, time, D); a time-major instance swaps
\* nothing. A BatchMajor2TimeMajor stage's output, swapped, is its input.
C7_LayoutRoundTrip ==
    /\ BiEncodeReturned =>
          LET r == bi_locals[1]
          IN /\ swapaxes(swapaxes(call.data)) = call.data
             /\ Shape(swapaxes(call.data)) = <<Dim1(call.data), Dim0(call.data), call.data.chan>>
             /\ r.swapped = (obj.layout = BATCH_MAJOR)
             /\ IF obj.layout = BATCH_MAJOR
                THEN /\ r.locals.data = swapaxes(call.data)
                     /\ ret = swapaxes(r.locals.hidden_concat)
                     /\ \A b \in 1..Dim0(call.data) : \A t \in 1..Dim1(call.data) :
                           ret.el[b][t] = r.locals.hidden_concat.el[t][b]
                ELSE /\ r.locals.data = call.data
                     /\ ret = r.locals.hidden_concat
             /\ Shape(ret) = <<Dim0(call.data), Dim1(call.data), obj.num_hidden>>
    /\ (pc = "returned" /\ obj.kind = "EncoderSequence" /\ call.op = "encode") =>
          \A k \in 1..Len(stage_calls) :
              stage_calls[k].encoder.kind = "BatchMajor2TimeMajor" =>
                  /\ swapaxes(stage_calls[k].out) = stage_calls[k].data
                  /\ Dim0(stage_calls[k].out) = Dim1(stage_calls[k].data)
                  /\ Dim1(stage_calls[k].out) = Dim0(stage_calls[k].data)

\* A batch-major instance encoded a batch whose batch and time extents differ.
C7_Witness ==
    /\ BiEncodeReturned
    /\ obj.layout = BATCH_MAJOR
    /\ Shape(call.data) = <<2, 3, 1>>
    /\ obj.num_hidden = 4
    /\ Shape(ret) = <<2, 3, 4>>

\* An EncoderSequence.encode call has returned.
SequenceEncodeReturned ==
    pc = "returned" /\ obj.kind = "EncoderSequence" /\ call.op = "encode"

\* C8: EncoderSequence.encode applies every stage exactly once, in the order
\* given at construction: call k is on stage k, gets the output of call k-1
\* (the first the input) and the unchanged data_length and seq_len, and the
\* last output is returned. Whatever calls were made, the object, with its
\* stage list and the order of it, is as the constructor left it.
C8_StagesInOrder ==
    /\ pc \in {"ready", "returned"} => obj = obj0
    /\ SequenceEncodeReturned =>
          /\ Len(stage_calls) = Len(obj0.encoders)
          /\ \A k \in 1..Len(stage_calls) :
                LET c == stage_calls[k]
                IN /\ c.encoder = obj0.encoders[k]
                   /\ c.data = IF k = 1 THEN call.data ELSE stage_calls[k - 1].out
                   /\ c.data_length = call.data_length
                   /\ c.seq_len = call.seq_len
                   /\ c.out = Encoder_encode(obj0.encoders[k], c.data,
                                             call.data_length, call.seq_len)
          /\ ret = IF Len(stage_calls) = 0 THEN call.data
                   ELSE stage_calls[Len(stage_calls)].out

\* encode returned on a four-stage recurrent pipeline.
C8_Witness ==
    /\ SequenceEncodeReturned
    /\ built.op = "get_encoder_rnn"
    /\ Len(obj.encoders) = 4
    /\ Len(stage_calls) = 4
    /\ stage_calls[4].encoder.kind = "RecurrentEncoder"
    /\ call.data_length = <<1, 2>>

\* The cells a stage contributes, as the claim states them.
C9_Contribution(e) ==
    CASE e.kind \in {"Embedding", "BatchMajor2TimeMajor", "TransformerEncoder"} -> <<>>
      [] e.kind = "RecurrentEncoder" -> <<e.rnn>>
      [] e.kind = "FusedRecurrentEncoder" -> e.rnn
      [] e.kind = "BiDirectionalRNNEncoder" ->
            (IF e.forward_rnn.kind = "RecurrentEncoder"
             THEN <<e.forward_rnn.rnn>> ELSE e.forward_rnn.rnn)
            \o (IF e.reverse_rnn.kind = "RecurrentEncoder"
                THEN <<e.reverse_rnn.rnn>> ELSE e.reverse_rnn.rnn)

\* The cells of the first n stages, in stage order.
RECURSIVE C9_Expected(_, _)
C9_Expected(encoders, n) ==
    IF n = 0 THEN <<>> ELSE C9_Expected(encoders, n - 1) \o C9_Contribution(encoders[n])

\* C9: EncoderSequence.get_rnn_cells returns the concatenation, in stage
\* order, of the stages' cells: nothing for Embedding, BatchMajor2TimeMajor and
\* TransformerEncoder, the forward cells then the reverse cells for a
\* BiDirectionalRNNEncoder; no cell appears twice and none is omitted.
C9_CellsInStageOrder ==
    (pc = "returned" /\ obj.kind = "EncoderSequence" /\ call.op = "get_rnn_cells") =>
        /\ raised = ""
        /\ ret = C9_Expected(obj.encoders, Len(obj.encoders))
        /\ \A i, j \in 1..Len(ret) : i # j => ret[i] # ret[j]
        /\ built.op = "get_encoder_rnn" =>
              /\ Len(ret) = IF built.num_layers > 1 THEN 3 ELSE 2
              /\ ret[1].prefix = BIDIRECTIONALRNN_PREFIX \o <<"FORWARD_PREFIX">>
              /\ ret[2].prefix = BIDIRECTIONALRNN_PREFIX \o <<"REVERSE_PREFIX">>
              /\ Len(ret) = 3 => ret[3].prefix = STACKEDRNN_PREFIX
        /\ built.op = "get_encoder_transformer" => ret = <<>>

\* get_rnn_cells returned the three cells of a fused multi-layer pipeline.
C9_Witness ==
    /\ pc = "returned" /\ obj.kind = "EncoderSequence" /\ call.op = "get_rnn_cells"
    /\ built.op = "get_encoder_rnn" /\ built.fused /\ built.num_layers = 2
    /\ Len(ret) = 3

\* C10: an EncoderSequence with zero stages is disallowed: construction with
\* an empty stage list fails, so no pipeline with an empty stage list is ever
\* there for encode or get_num_hidden to be called on.
C10_NoEmptyPipeline ==
    (pc \in {"ready", "returned"} /\ obj.kind = "EncoderSequence") =>
        Len(obj.encoders) >= 1

\* A get_encoder_rnn call has returned its pipeline.
BuiltByRnnBuilder ==
    built.op = "get_encoder_rnn" /\ pc \in {"ready", "returned"}

\* The layers a recurrent stage declares: those of the cells it holds.
RECURSIVE DeclaredLayers(_)
DeclaredLayers(cells) ==
    IF Len(cells) = 0 THEN 0 ELSE cells[1].num_layers + DeclaredLayers(Tail(cells))

\* The stage wires its layers residually: every cell it holds has the flag.
DeclaredResidual(stage) ==
    \A i \in 1..Len(Recurrent_get_rnn_cells(stage)) : Recurrent_get_rnn_cells(stage)[i].residual

\* The stages of the pipeline are Embedding, BatchMajor2TimeMajor, a
\* BiDirectionalRNNEncoder of one layer per direction and, exactly when
\* num_layers > 1, one uni-directional stage of num_layers - 1 layers; the
\* layers declared add up to num_layers.
RnnPipelineStages ==
    LET e == obj.encoders
    IN /\ Len(e) = IF built.num_layers > 1 THEN 4 ELSE 3
       /\ e[1].kind = "Embedding"
       /\ e[2].kind = "BatchMajor2TimeMajor"
       /\ e[3].kind = "BiDirectionalRNNEncoder"
       /\ DeclaredLayers(Recurrent_get_rnn_cells(e[3].forward_rnn)) = 1
       /\ DeclaredLayers(Recurrent_get_rnn_cells(e[3].reverse_rnn)) = 1
       /\ Len(e) = 4 =>
             /\ e[4].kind \in EncoderClasses
             /\ DeclaredLayers(Recurrent_get_rnn_cells(e[4])) = built.num_layers - 1
       /\ 1 + (IF Len(e) = 4 THEN DeclaredLayers(Recurrent_get_rnn_cells(e[4])) ELSE 0)
             = built.num_layers

\* C11: the pipeline get_encoder_rnn returns has the stages Embedding,
\* BatchMajor2TimeMajor, a BiDirectionalRNNEncoder with exactly 1 layer and,
\* if and only if num_layers > 1, one uni-directional stage with
\* num_layers - 1 layers that carries the residual flag given to the builder;
\* the recurrent layers declared add up to num_layers.
C11_RnnPipeline ==
    BuiltByRnnBuilder =>
        /\ RnnPipelineStages
        /\ built.num_layers > 1 => (DeclaredResidual(obj.encoders[4]) <=> built.residual)

\* The same with the residual flag looked at in the non-fused pipelines only.
C11_RnnPipelineNonFused ==
    BuiltByRnnBuilder =>
        /\ RnnPipelineStages
        /\ (built.num_layers > 1 /\ ~built.fused) =>
               (DeclaredResidual(obj.encoders[4]) <=> built.residual)

\* What a stage declares of the recurrent architecture: its direction, the
\* width and number of its layers and whether they are wired residually. The
\* class that runs the layers (RecurrentEncoder or FusedRecurrentEncoder) is
\* left out.
StageDeclaration(stage) ==
    IF stage.kind \in EncoderClasses
    THEN <<"uni", stage.num_hidden, DeclaredLayers(Recurrent_get_rnn_cells(stage)),
           DeclaredResidual(stage)>>
    ELSE IF stage.kind = "BiDirectionalRNNEncoder"
    THEN <<"bi", stage.num_hidden,
           DeclaredLayers(Recurrent_get_rnn_cells(stage.forward_rnn))
               + DeclaredLayers(Recurrent_get_rnn_cells(stage.reverse_rnn)),
           DeclaredResidual(stage.forward_rnn) \/ DeclaredResidual(stage.reverse_rnn)>>
    ELSE <<stage.kind, Encoder_get_num_hidden(stage), 0, FALSE>>

PipelineDeclaration(pipeline) ==
    [i \in 1..Len(pipeline.encoders) |-> StageDeclaration(pipeline.encoders[i])]

\* The pipeline get_encoder_rnn builds from the arguments of the call made,
\* with the fused argument as given here.
RebuiltWithFused(fused) ==
    get_encoder_rnn(built.num_embed, built.vocab_size, built.num_layers,
                    built.rnn_num_hidden, built.cell_type, built.residual,
                    built.dropout, built.forget_bias, fused).self

\* C14: for every configuration get_encoder_rnn accepts, the pipeline built
\* with fused = True declares the same stage sequence, layer counts and
\* residual wiring as the one built with fused = False, and with
\* residual = True and num_layers > 1 the uni-directional stage is wired
\* residually in both.
C14_FusedDeclaresTheSame ==
    BuiltByRnnBuilder =>
        /\ PipelineDeclaration(RebuiltWithFused(TRUE))
               = PipelineDeclaration(RebuiltWithFused(FALSE))
        /\ (built.residual /\ built.num_layers > 1) => DeclaredResidual(obj.encoders[4])

\* The same for the configurations that ask for no residual wiring.
C14_FusedDeclaresTheSameNoResidual ==
    (BuiltByRnnBuilder /\ ~(built.residual /\ built.num_layers > 1)) =>
        /\ obj = RebuiltWithFused(built.fused)
        /\ PipelineDeclaration(RebuiltWithFused(TRUE))
               = PipelineDeclaration(RebuiltWithFused(FALSE))

\* A PositionalEncodingInitializer was asked to initialize an array of its
\* own shape (max_seq_len, num_embed), and the call has ended.
PositionalInitEnded ==
    /\ pc = "returned" /\ obj.kind = "PositionalEncodingInitializer"
    /\ call.op = "_init_weight"
    /\ call.arr.shape = <<obj.max_seq_len, obj.num_embed>>

\* Row p of the table holds, for every channel, the sinusoid of position p
\* (the sine for even p, the cosine for odd p) and of no other position.
TableRowsByPosition ==
    \A p \in 0..(obj.max_seq_len - 1), c \in 0..(obj.num_embed - 1) :
        ret.arr.el[p + 1][c + 1]
            = WeightEntry(IF p % 2 = 0 THEN "sin" ELSE "cos", 1, p, c, obj.num_embed)

\* Embedding.encode with positional encodings has returned.
PositionalEmbeddingReturned ==
    /\ pc = "returned" /\ obj.kind = "Embedding" /\ call.op = "encode"
    /\ obj.add_positional_encoding

\* Every step t of every example has row t (from 0) of the encodings variable
\* added to it, and no other row.
EmbeddingAddsRowsInOrder ==
    \A b \in 1..Dim0(ret), t \in 1..Dim1(ret) :
        LET e == ret.el[b][t]
        IN /\ SubSeq(e, Len(e) - 1, Len(e))
                  = <<Tok("BlockGrad", <<>>, 0, 0),
                      Tok("positional_encodings", obj.prefix, t - 1, obj.num_embed)>>
           /\ \A n \in 1..Len(e) : e[n].op = "positional_encodings" => n = Len(e)
           /\ \E n \in 1..Len(e) : e[n].op = "broadcast_add"

\* C12: for every (max_seq_len, num_embed), _init_weight of
\* PositionalEncodingInitializer writes the table that is a function of those
\* two values and in which row p is computed from position p alone, and
\* Embedding adds rows 0..seq_len-1 of the table, unchanged and in order, for
\* every seq_len <= max_seq_len.
C12_PositionalTable ==
    /\ PositionalInitEnded => (raised = "" /\ TableRowsByPosition)
    /\ PositionalEmbeddingReturned => EmbeddingAddsRowsInOrder

\* The same for even max_seq_len; for odd max_seq_len the call raises and
\* leaves the array as it was.
C12_PositionalTableEven ==
    /\ (PositionalInitEnded /\ obj.max_seq_len % 2 = 0) => (raised = "" /\ TableRowsByPosition)
    /\ (PositionalInitEnded /\ obj.max_seq_len % 2 = 1) =>
           (raised = "ValueError" /\ ret.arr = call.arr /\ ret.writes = <<>>)
    /\ PositionalEmbeddingReturned => EmbeddingAddsRowsInOrder

\* A StackedOrthogonalInit._init_weight call has ended.
StackedInitEnded ==
    pc = "returned" /\ obj.kind = "StackedOrthogonalInit" /\ call.op = "_init_weight"

\* The array handed over is 2-D with a row count that is a multiple of its
\* column count.
StackedShape ==
    Len(call.arr.shape) = 2 /\ call.arr.shape[1] % call.arr.shape[2] = 0

\* C13: get_initializer raises ValueError and returns no initializer for every
\* rnn_init_type other than the two known ones, and returns the initializer of
\* the tag for these two; a StackedOrthogonalInit whose rand_type is none of
\* uniform, normal, eye raises for every array it is asked to initialize (the
\* unknown-type ValueError when the array passes the shape assertions) and
\* writes nothing to the array.
C13_UnknownTypeRaises ==
    /\ built.op = "get_initializer" =>
           IF built.rnn_init_type \in {RNN_INIT_ORTHOGONAL, RNN_INIT_ORTHOGONAL_STACKED}
           THEN /\ pc = "ready" /\ raised = ""
                /\ obj.kind = "Mixed" /\ obj.patterns[1] = ".*h2h.*"
                /\ obj.initializers[1].kind
                       = (IF built.rnn_init_type = RNN_INIT_ORTHOGONAL
                          THEN "Orthogonal" ELSE "StackedOrthogonalInit")
           ELSE pc = "failed" /\ raised = "ValueError" /\ obj = NoObject
    /\ (StackedInitEnded /\ obj.rand_type \notin {"uniform", "normal", "eye"}) =>
           /\ raised = (IF StackedShape THEN "ValueError" ELSE "AssertionError")
           /\ ret.arr = call.arr
           /\ ret.writes = <<>>

\* An initializer with an unrecognized rand_type was handed a well-shaped
\* array of two blocks, and the call ended with the unknown-type error.
C13_Witness ==
    /\ StackedInitEnded /\ obj.rand_type = "gaussian"
    /\ call.arr.shape = <<4, 2>>
    /\ raised = "ValueError"

\* Block j (from 0) of the array after the call: rows j*n..j*n+n-1 were
\* assigned by the (j+1)-th slice assignment, and hold scale times the entries
\* of the q computed for block j, which is the identity for rand_type eye and
\* the q of this block's own draw otherwise.
BlockWritten(j, n) ==
    LET w == ret.writes[j + 1]
    IN /\ w.begin = j * n /\ w.end = j * n + n
       /\ \A r \in 1..n, c \in 1..n :
             /\ ret.arr.el[j * n + r][c] = [w.q[r][c] EXCEPT !.scale = obj.scale * @]
             /\ IF obj.rand_type = "eye"
                THEN ret.arr.el[j * n + r][c]
                         = WeightEntry("one", IF r = c THEN obj.scale ELSE 0, 0, 0, 0)
                ELSE w.q[r][c] = WeightEntry(IF obj.rand_type = "uniform"
                                             THEN "svd_uniform" ELSE "svd_normal",
                                             1, j, r - 1, c - 1)

\* C15: on a 2-D array of shape (k*n, n), _init_weight of a StackedOrthogonalInit
\* with a known rand_type writes every row exactly once, as k consecutive
\* n-by-n blocks, block j in rows j*n..j*n+n-1 and equal to scale times that
\* block's q (scale times the identity for rand_type eye); an array that is
\* not 2-D or whose row count is no multiple of its column count is rejected
\* with AssertionError before any row is written.
C15_StackedBlocks ==
    StackedInitEnded =>
        IF StackedShape
        THEN obj.rand_type \in {"uniform", "normal", "eye"} =>
                 LET n == call.arr.shape[2]
                     k == call.arr.shape[1] \div n
                 IN /\ raised = ""
                    /\ ret.arr.shape = call.arr.shape
                    /\ Len(ret.writes) = k
                    /\ \A j \in 0..(k - 1) : BlockWritten(j, n)
                    /\ \A r \in 1..(k * n) :
                          Cardinality({i \in 1..Len(ret.writes) :
                                          ret.writes[i].begin < r /\ r <= ret.writes[i].end}) = 1
        ELSE /\ raised = "AssertionError"
             /\ ret.arr = call.arr
             /\ ret.writes = <<>>

\* A (4, 2) array was initialized as two blocks with scale 2 from random draws.
C15_Witness ==
    /\ StackedInitEnded /\ obj.rand_type = "uniform" /\ obj.scale = 2
    /\ call.arr.shape = <<4, 2>>
    /\ raised = "" /\ Len(ret.writes) = 2
    /\ ret.arr # call.arr

====
